---------------------------- MODULE Spec2Model ----------------------------
(***************************************************************************)
(* A model of dnstest.py: the bounded-concurrency DNS benchmark.           *)
(*                                                                         *)
(* The program is a single-threaded asyncio program.  One coordinator      *)
(* (run_test) creates one limited_query task per entry of the domain list, *)
(* every task passes asyncio.Semaphore(CONCURRENT_REQUESTS), calls         *)
(* query_domain and finishes; the coordinator consumes the finished tasks  *)
(* in completion order (asyncio.as_completed) and prints the summary.      *)
(* Every action below is one run-to-suspension step of the event loop:     *)
(* the code between two awaits executes atomically.                        *)
(*                                                                         *)
(* time.perf_counter() is the variable now, a monotonic clock that ticks   *)
(* in whole seconds; two consecutive readings may be equal.                *)
(***************************************************************************)
EXTENDS Integers, Sequences, FiniteSets, TLC

VARIABLES
    mpc,                    \* position of the main program / of run_test
    domains,                \* domains_to_test (actual_domains_to_test)
    dns_servers,            \* custom_dns_servers / run_test's dns_servers
    N,                      \* the configured CONCURRENT_REQUESTS
    sem_value,              \* free slots of sem
    waiters,                \* sem's FIFO of suspended acquirers (task indices)
    tpc,                    \* tpc[i]: position of the task of domains[i]
    start_time,             \* start_time[i] in query_domain
    result,                 \* result[i]: what the task of domains[i] returned
    done_queue,             \* as_completed's queue of finished tasks
    total_processed, successful_lookups, failed_lookups,
    error_counts,           \* dict, in insertion order: <<[key, count], ...>>
    timings,
    start_processing_time, total_duration,
    now,                    \* time.perf_counter()
    printed,                \* what has been written to the terminal
    evals,                  \* divisions and statistics evaluated so far
    resolve_calls,          \* resolve_calls[i]: resolver.resolve calls for entry i
    acquires, releases,     \* per task: sem acquisitions / releases
    settled_as,             \* settled_as[i]: how the resolve call of entry i settled
    consumed                \* what the coordinator took from each record it
                            \* consumed, in order: the index of its entry of
                            \* domains, its domain and error key, and its
                            \* latency if that went into timings
VARIABLE
    report                  \* the values the summary printed
VARIABLE
    settled                 \* the entries whose resolve call has settled, in
                            \* the order in which they settled
VARIABLE
    sigint_at               \* SIGINT came while the coordinator was running at
                            \* total_processed = sigint_at and asyncio.run's
                            \* handler has asked for the coordinator to be
                            \* cancelled at its next suspension; NoTime if not

vars == << mpc, domains, dns_servers, N, sem_value, waiters, tpc, start_time,
           result, done_queue, total_processed, successful_lookups,
           failed_lookups, error_counts, timings, start_processing_time,
           total_duration, now, printed, evals, resolve_calls, acquires,
           releases, settled_as, consumed, report, sigint_at, settled >>

---------------------------------------------------------------------------
(* Bounds of the model *)

MaxDomains == 2
MaxCeiling == 2
MaxTime == 1
MaxReported == 4

---------------------------------------------------------------------------
(* Program constants *)

TIMEOUT == 2

\* Strings at the server prompt are sequences of character classes: ","
\* the separator, " " white space, "x" any other character (split and strip
\* tell no others apart).  "192.168.0.2" is a string of the class "x".
DEFAULT_DNS_SERVER == << "x" >>

None == "None"

NoTime == 0 - 1

DomainNames == { "google.com", "youtube.com" }

\* dns.resolver exceptions; all of them derive from Exception
ExceptionClasses == { "NXDOMAIN", "NoAnswer", "Timeout", "NoNameservers" }

\* how one resolver.resolve call may settle
Outcomes == { "ok" } \cup ExceptionClasses

\* what the user may type at the DNS server prompt
ServerInputs ==
    { << >>, << "," >>, << " " >>, << " ", ",", " " >>,
      << "x" >>, << " ", "x", ",", " " >>, << ",", "x", "," >> }

---------------------------------------------------------------------------
(* Helpers *)

SeqsUpTo(S, n) == UNION { [1..k -> S] : k \in 0..n }

RECURSIVE SumCounts(_)
SumCounts(d) == IF d = << >> THEN 0 ELSE Head(d).count + SumCounts(Tail(d))

Tasks == 1..Len(domains)

---------------------------------------------------------------------------
(* get_dns_servers_from_user: str.split(','), str.strip() and the filter   *)

HasComma(s) == \E k \in 1..Len(s) : s[k] = ","

FirstComma(s) == CHOOSE k \in 1..Len(s) :
                    s[k] = "," /\ \A j \in 1..(k - 1) : s[j] # ","

RECURSIVE Split(_)
Split(s) ==
    IF ~HasComma(s) THEN << s >>
    ELSE << SubSeq(s, 1, FirstComma(s) - 1) >>
         \o Split(SubSeq(s, FirstComma(s) + 1, Len(s)))

RECURSIVE LStrip(_)
LStrip(s) == IF s # << >> /\ Head(s) = " " THEN LStrip(Tail(s)) ELSE s

RECURSIVE RStrip(_)
RStrip(s) == IF s # << >> /\ s[Len(s)] = " "
             THEN RStrip(SubSeq(s, 1, Len(s) - 1)) ELSE s

Strip(s) == RStrip(LStrip(s))

RECURSIVE NonEmptyStripped(_)
NonEmptyStripped(parts) ==
    IF parts = << >> THEN << >>
    ELSE (IF Strip(Head(parts)) # << >> THEN << Strip(Head(parts)) >> ELSE << >>)
         \o NonEmptyStripped(Tail(parts))

get_dns_servers_from_user(dns_input) ==
    IF dns_input = << >>
    THEN << DEFAULT_DNS_SERVER >>
    ELSE NonEmptyStripped(Split(dns_input))

---------------------------------------------------------------------------
(* query_domain: the outcome record of one resolve call that settled with  *)
(* outcome o, started at time s and settled at time e.  raised is TRUE     *)
(* when the exception is not caught and leaves query_domain.               *)

\* mutant: no generic `except Exception` clause
query_domain_NoCatchAll(domain, o, s, e) ==
    IF o = "ok"
    THEN [raised |-> FALSE, domain |-> domain, time_taken |-> e - s, error_key |-> None]
    ELSE IF o \in { "NXDOMAIN", "NoAnswer" }
    THEN [raised |-> FALSE, domain |-> domain, time_taken |-> e - s, error_key |-> o]
    ELSE IF o = "Timeout"
    THEN [raised |-> FALSE, domain |-> domain, time_taken |-> TIMEOUT, error_key |-> "Timeout"]
    ELSE [raised |-> TRUE, domain |-> domain, time_taken |-> NoTime, error_key |-> o]

\* mutant: the Timeout branch returns the measured time like the others
query_domain_TimeoutMeasured(domain, o, s, e) ==
    IF o = "ok"
    THEN [raised |-> FALSE, domain |-> domain, time_taken |-> e - s, error_key |-> None]
    ELSE IF o \in ExceptionClasses
    THEN [raised |-> FALSE, domain |-> domain, time_taken |-> e - s, error_key |-> o]
    ELSE [raised |-> TRUE, domain |-> domain, time_taken |-> NoTime, error_key |-> o]

query_domain(domain, o, s, e) ==
    IF o = "ok"
    THEN [raised |-> FALSE, domain |-> domain, time_taken |-> e - s, error_key |-> None]
    ELSE IF o = "NXDOMAIN"
    THEN [raised |-> FALSE, domain |-> domain, time_taken |-> e - s, error_key |-> "NXDOMAIN"]
    ELSE IF o = "NoAnswer"
    THEN [raised |-> FALSE, domain |-> domain, time_taken |-> e - s, error_key |-> "NoAnswer"]
    ELSE IF o = "Timeout"
    THEN [raised |-> FALSE, domain |-> domain, time_taken |-> TIMEOUT, error_key |-> "Timeout"]
    ELSE IF o \in ExceptionClasses
    THEN [raised |-> FALSE, domain |-> domain, time_taken |-> e - s, error_key |-> o]
    ELSE [raised |-> TRUE, domain |-> domain, time_taken |-> NoTime, error_key |-> o]

\* nothing printed (yet) for a line of the summary
NoReport == [error_breakdown |-> << >>, overall_qps |-> << >>, stdev |-> << >>]

NoResult == [raised |-> FALSE, domain |-> None, time_taken |-> NoTime, error_key |-> None]

\* Python truthiness of error_key: None and "" are false
Truthy(k) == k # None /\ k # ""

\* error_counts[key] = error_counts.get(key, 0) + 1 on an insertion-ordered dict
DictIncrement(d, key) ==
    IF \E k \in 1..Len(d) : d[k].key = key
    THEN [k \in 1..Len(d) |->
            IF d[k].key = key THEN [d[k] EXCEPT !.count = @ + 1] ELSE d[k]]
    ELSE Append(d, [key |-> key, count |-> 1])

---------------------------------------------------------------------------
(* asyncio.Semaphore(CONCURRENT_REQUESTS) *)

\* mutant: the slot test is off by one
SemLocked_OffByOne == sem_value < 0 \/ waiters # << >>

\* Semaphore.locked(): no free slot, or somebody is already queued
SemLocked == sem_value = 0 \/ waiters # << >>

\* the tasks that hold a slot: admitted by sem and not yet released
Holding == { i \in Tasks : tpc[i] \in { "woken", "resolving" } }

---------------------------------------------------------------------------
(* Initial states.  "prompt": the script after get_domains_for_test has     *)
(* returned its (never empty) list, about to ask for the servers.          *)
(* "call": asyncio.run(run_test(...)) inside the try block of line 305,    *)
(* about to be entered with the empty domain list, which __main__ never    *)
(* passes on (every other list reaches run_test through the prompt).       *)

Init ==
    /\ mpc \in { "prompt", "call" }
    /\ domains \in SeqsUpTo(DomainNames, MaxDomains)
    /\ mpc = "prompt" => domains # << >>    \* line 291: __main__ stops on no domains
    /\ mpc = "call" => domains = << >>      \* run_test called with an empty list
    /\ dns_servers = IF mpc = "prompt" THEN << >> ELSE << DEFAULT_DNS_SERVER >>
    /\ N \in 1..MaxCeiling      \* 50 in the file as shipped (line 29)
    /\ sem_value = N
    /\ waiters = << >>
    /\ tpc = [i \in Tasks |-> "none"]
    /\ start_time = [i \in Tasks |-> NoTime]
    /\ result = [i \in Tasks |-> NoResult]
    /\ done_queue = << >>
    /\ total_processed = 0
    /\ successful_lookups = 0
    /\ failed_lookups = 0
    /\ error_counts = << >>
    /\ timings = << >>
    /\ start_processing_time = NoTime
    /\ total_duration = NoTime
    /\ now = 0
    /\ printed = { }
    /\ evals = { }
    /\ resolve_calls = [i \in Tasks |-> 0]
    /\ acquires = [i \in Tasks |-> 0]
    /\ releases = [i \in Tasks |-> 0]
    /\ settled_as = [i \in Tasks |-> None]
    /\ consumed = << >>
    /\ report = NoReport
    /\ sigint_at = NoTime
    /\ settled = << >>

runVars == << sem_value, waiters, tpc, start_time, result, done_queue,
              total_processed, successful_lookups, failed_lookups,
              error_counts, timings, start_processing_time, total_duration,
              evals, resolve_calls, acquires, releases, settled_as,
              consumed, report, sigint_at, settled >>

---------------------------------------------------------------------------
(* __main__ *)

\* mutant: the test never fires for a list
NoServers_WrongTest(servers) == Len(servers) < 0

\* `if not custom_dns_servers`
NoServers(servers) == servers = << >>

\* custom_dns_servers = get_dns_servers_from_user(), and the `if not` test
MainGetServers ==
    /\ mpc = "prompt"
    /\ \E dns_input \in ServerInputs :
         LET servers == get_dns_servers_from_user(dns_input) IN
         /\ dns_servers' = servers
         /\ IF NoServers(servers)
            THEN /\ mpc' = "exit"
                 /\ printed' = printed \cup { "debug_servers", "critical_no_servers" }
            ELSE /\ mpc' = "shuffle"
                 /\ printed' = printed \cup { "debug_servers" }
    /\ UNCHANGED << domains, N, now >>
    /\ UNCHANGED runVars

\* random.shuffle(actual_domains_to_test), then asyncio.run(run_test(...))
MainShuffle ==
    /\ mpc = "shuffle"
    /\ \E p \in Permutations(1..Len(domains)) :
         domains' = [k \in 1..Len(domains) |-> domains[p[k]]]
    /\ mpc' = "call"
    /\ UNCHANGED << dns_servers, N, now, printed >>
    /\ UNCHANGED runVars

---------------------------------------------------------------------------
(* run_test *)

\* mutant: the start timestamp is not taken before the loop
StartProcessingTime_NotTaken == NoTime

\* start_processing_time = time.perf_counter(), line 210
StartProcessingTime == now

\* Lines 181-214: the resolver, the header, one coroutine per entry, the
\* start timestamp; asyncio.as_completed turns every coroutine into a
\* scheduled task.  No task has run yet.
RunTestBegin ==
    /\ UNCHANGED report
    /\ UNCHANGED settled
    /\ UNCHANGED sigint_at
    /\ mpc = "call"
    /\ mpc' = "running"
    /\ printed' = printed \cup { "header" }
    /\ sem_value' = N
    /\ tpc' = [i \in Tasks |-> "scheduled"]
    /\ start_processing_time' = StartProcessingTime
    /\ total_processed' = 0
    /\ UNCHANGED << domains, dns_servers, N, waiters, start_time, result,
                    done_queue, successful_lookups, failed_lookups,
                    error_counts, timings, total_duration, now, evals,
                    resolve_calls, acquires, releases, settled_as, consumed >>

\* limited_query's first step: `async with sem`.  With a free slot and
\* nobody queued the task is admitted at once and goes on into query_domain
\* up to `await resolver.resolve`; otherwise it queues up on sem.
TaskStart(i) ==
    /\ UNCHANGED report
    /\ UNCHANGED settled
    /\ sigint_at = NoTime
    /\ UNCHANGED sigint_at
    /\ mpc = "running"
    /\ i \in Tasks
    /\ tpc[i] = "scheduled"
    /\ IF ~SemLocked
       THEN /\ sem_value' = sem_value - 1
            /\ acquires' = [acquires EXCEPT ![i] = @ + 1]
            /\ start_time' = [start_time EXCEPT ![i] = now]
            /\ resolve_calls' = [resolve_calls EXCEPT ![i] = @ + 1]
            /\ tpc' = [tpc EXCEPT ![i] = "resolving"]
            /\ UNCHANGED waiters
       ELSE /\ waiters' = Append(waiters, i)
            /\ tpc' = [tpc EXCEPT ![i] = "waiting"]
            /\ UNCHANGED << sem_value, acquires, start_time, resolve_calls >>
    /\ UNCHANGED << mpc, domains, dns_servers, N, result, done_queue,
                    total_processed, successful_lookups, failed_lookups,
                    error_counts, timings, start_processing_time,
                    total_duration, now, printed, evals, releases, settled_as,
                    consumed >>

\* A waiter that was handed a slot resumes: sem.acquire() returns and the
\* task goes on into query_domain up to `await resolver.resolve`.
TaskResume(i) ==
    /\ UNCHANGED report
    /\ UNCHANGED settled
    /\ sigint_at = NoTime
    /\ UNCHANGED sigint_at
    /\ mpc = "running"
    /\ i \in Tasks
    /\ tpc[i] = "woken"
    /\ acquires' = [acquires EXCEPT ![i] = @ + 1]
    /\ start_time' = [start_time EXCEPT ![i] = now]
    /\ resolve_calls' = [resolve_calls EXCEPT ![i] = @ + 1]
    /\ tpc' = [tpc EXCEPT ![i] = "resolving"]
    /\ UNCHANGED << mpc, domains, dns_servers, N, sem_value, waiters, result,
                    done_queue, total_processed, successful_lookups,
                    failed_lookups, error_counts, timings,
                    start_processing_time, total_duration, now, printed,
                    evals, releases, settled_as, consumed >>

\* mutant: release frees a slot and hands one to the waiter as well
SemAfterRelease_DoubleGrant == sem_value + 1

\* Semaphore.release(): the slot goes to the first waiter if there is one
SemAfterRelease == IF waiters = << >> THEN sem_value + 1 ELSE sem_value

WaitersAfterRelease == IF waiters = << >> THEN << >> ELSE Tail(waiters)

\* mutant: release takes the waiter off the queue and never wakes it
WokenByRelease_LostWakeup == { }

\* Semaphore._wake_up_next(): the waiter whose acquire() is completed
WokenByRelease == IF waiters = << >> THEN { } ELSE { Head(waiters) }

\* resolver.resolve settles with outcome o: query_domain returns (or lets
\* the exception through), `async with sem` releases the slot, the task
\* finishes and as_completed queues it for the coordinator.
TaskSettle(i, o) ==
    /\ UNCHANGED report
    /\ settled' = Append(settled, i)
    /\ sigint_at = NoTime
    /\ UNCHANGED sigint_at
    /\ mpc = "running"
    /\ i \in Tasks
    /\ tpc[i] = "resolving"
    /\ settled_as' = [settled_as EXCEPT ![i] = o]
    /\ result' = [result EXCEPT ![i] = query_domain(domains[i], o, start_time[i], now)]
    /\ start_time' = [start_time EXCEPT ![i] = NoTime]
    /\ releases' = [releases EXCEPT ![i] = @ + 1]
    /\ sem_value' = SemAfterRelease
    /\ waiters' = WaitersAfterRelease
    /\ tpc' = [j \in Tasks |->
                 IF j = i THEN "done"
                 ELSE IF j \in WokenByRelease THEN "woken"
                 ELSE tpc[j]]
    /\ done_queue' = Append(done_queue, i)
    /\ UNCHANGED << mpc, domains, dns_servers, N, total_processed,
                    successful_lookups, failed_lookups, error_counts, timings,
                    start_processing_time, total_duration, now, printed,
                    evals, resolve_calls, acquires, consumed >>

\* A division or statistic op evaluated with divisor (or sample size, or
\* degrees of freedom) d: Python raises ZeroDivisionError, StatisticsError
\* or ValueError when d is 0.
Evaluated(op, d) == [op |-> op, fails |-> (d = 0)]

\* mutant: a Timeout is retried later and not counted
RecordResult_TimeoutDropped(succ, failed, ec, tms, r) ==
    IF r.error_key = "Timeout"
    THEN [successful |-> succ, failed |-> failed,
          error_counts |-> ec, timings |-> tms]
    ELSE IF Truthy(r.error_key)
    THEN [successful |-> succ, failed |-> failed + 1,
          error_counts |-> DictIncrement(ec, r.error_key), timings |-> tms]
    ELSE [successful |-> succ + 1, failed |-> failed,
          error_counts |-> ec, timings |-> Append(tms, r.time_taken)]

\* mutant: the TIMEOUT that query_domain returns for a Timeout is taken for
\* a latency
RecordResult_TimeoutTimed(succ, failed, ec, tms, r) ==
    IF r.error_key = "Timeout"
    THEN [successful |-> succ, failed |-> failed + 1,
          error_counts |-> DictIncrement(ec, r.error_key),
          timings |-> Append(tms, r.time_taken)]
    ELSE IF Truthy(r.error_key)
    THEN [successful |-> succ, failed |-> failed + 1,
          error_counts |-> DictIncrement(ec, r.error_key), timings |-> tms]
    ELSE [successful |-> succ + 1, failed |-> failed,
          error_counts |-> ec, timings |-> Append(tms, r.time_taken)]

\* mutant: the latency is appended whatever the outcome
RecordResult_AlwaysTimed(succ, failed, ec, tms, r) ==
    IF Truthy(r.error_key)
    THEN [successful |-> succ, failed |-> failed + 1,
          error_counts |-> DictIncrement(ec, r.error_key),
          timings |-> Append(tms, r.time_taken)]
    ELSE [successful |-> succ + 1, failed |-> failed,
          error_counts |-> ec, timings |-> Append(tms, r.time_taken)]

\* Lines 219-224: the counters after the record r, as
\* [successful, failed, error_counts, timings]
RecordResult(succ, failed, ec, tms, r) ==
    IF Truthy(r.error_key)
    THEN [successful |-> succ, failed |-> failed + 1,
          error_counts |-> DictIncrement(ec, r.error_key), timings |-> tms]
    ELSE [successful |-> succ + 1, failed |-> failed,
          error_counts |-> ec, timings |-> Append(tms, r.time_taken)]

\* the divisions of the progress line, lines 229 and 232
ProgressEvals(elapsed_time, len) ==
    (IF elapsed_time > 0
     THEN { Evaluated("div_elapsed_time", elapsed_time) }
     ELSE { })
    \cup { Evaluated("div_len_domains", len) }

\* mutant: the loop stops one future short
LoopExhausted_OneShort == total_processed >= Len(domains) - 1

\* `for i, future in enumerate(asyncio.as_completed(tasks))` has yielded
\* every future
LoopExhausted == total_processed = Len(domains)

\* mutant: the loop awaits the tasks in the order of the domain list
NextCompleted_SubmissionOrder ==
    CHOOSE i \in Tasks : tpc[i] = "done" /\ result[i] # NoResult
                         /\ \A j \in 1..(i - 1) : result[j] = NoResult

\* the task that `await future` of an as_completed future returns: the one
\* that finished first among those not yet returned
NextCompleted == Head(done_queue)

\* mutant: the finished task is read and left in the queue
DoneQueueAfterGet_Peek == done_queue

\* as_completed's queue after `await future` took the oldest finished task
DoneQueueAfterGet == Tail(done_queue)

\* After this iteration the coordinator does not suspend: another finished
\* task is queued for the next `await future`, or the loop is over.  (When
\* it does suspend, a cancellation asked for during the iteration is
\* delivered there, which is Interrupt.)
StretchGoesOn ==
    \/ Len(done_queue) > 1
    \/ total_processed + 1 = Len(domains)

\* One iteration of the result loop, lines 215-233: `await future` returns
\* the oldest finished task's record (or raises its exception, which leaves
\* run_test), the counters are updated and the progress line is printed.
ConsumeStep(sigint) ==
    /\ UNCHANGED report
    /\ UNCHANGED settled
    /\ mpc = "running"
    /\ ~LoopExhausted
    /\ done_queue # << >>
    /\ LET i == NextCompleted
           r == result[i]
           c == RecordResult(successful_lookups, failed_lookups,
                             error_counts, timings, r)
       IN  /\ IF sigint
              THEN /\ sigint_at = NoTime
                   /\ ~r.raised
                   /\ StretchGoesOn
                   /\ sigint_at' = total_processed + 1
              ELSE UNCHANGED sigint_at
           /\ done_queue' = DoneQueueAfterGet
           /\ result' = [result EXCEPT ![i] = NoResult]
           /\ IF r.raised
              THEN /\ mpc' = "error"
                   /\ printed' = printed \cup { "unexpected_error" }
                   /\ UNCHANGED << total_processed, successful_lookups,
                                   failed_lookups, error_counts, timings,
                                   evals, consumed >>
              ELSE /\ total_processed' = total_processed + 1
                   /\ consumed' = Append(consumed,
                        [idx |-> i, domain |-> r.domain, error_key |-> r.error_key,
                         time_taken |-> IF Len(c.timings) > Len(timings)
                                        THEN r.time_taken ELSE NoTime])
                   /\ successful_lookups' = c.successful
                   /\ failed_lookups' = c.failed
                   /\ error_counts' = c.error_counts
                   /\ timings' = c.timings
                   /\ evals' = evals \cup ProgressEvals(now - start_processing_time,
                                                       Len(domains))
                   /\ printed' = printed \cup { "progress" }
                   /\ UNCHANGED mpc
    /\ UNCHANGED << domains, dns_servers, N, sem_value, waiters, tpc,
                    start_time, start_processing_time, total_duration,
                    now, resolve_calls, acquires, releases, settled_as >>

\* mutant: the performance section is printed without the `if timings:` test
SummaryLines_UnguardedPerformance(failed, tms, duration) ==
    { "summary", "performance" }
    \cup (IF failed > 0 THEN { "error_breakdown" } ELSE { })
    \cup (IF Len(tms) > 1 THEN { "stdev" } ELSE { })
    \cup (IF duration > 0 THEN { "overall_qps" } ELSE { })

\* an iteration of the result loop during which no signal arrives
Consume == ConsumeStep(FALSE)

\* SIGINT arrives while the coordinator is running an iteration of the loop
\* (lines 216-233).  asyncio.run's handler (Python 3.11 and later) does not
\* raise in place: it asks for the coordinator to be cancelled, and that
\* takes effect when the coordinator next suspends.  `await future` suspends
\* only when no finished task is queued; until then the coordinator runs on
\* and no task gets the event loop.
ConsumeInterrupted == ConsumeStep(TRUE)

\* what the summary prints, lines 240-270
SummaryLines(failed, tms, duration) ==
    { "summary" }
    \cup (IF failed > 0 THEN { "error_breakdown" } ELSE { })
    \cup (IF tms # << >>
          THEN { "performance" }
               \cup (IF Len(tms) > 1 THEN { "stdev" } ELSE { })
               \cup (IF duration > 0 THEN { "overall_qps" } ELSE { })
          ELSE { "no_successful_lookups" })

\* mutant: the overall QPS is computed outside of both guards
SummaryEvals_UnguardedQps(tms, duration) ==
    { Evaluated("div_total_duration", duration) }
    \cup (IF tms # << >>
          THEN { Evaluated("mean", Len(tms)), Evaluated("median", Len(tms)),
                 Evaluated("min", Len(tms)), Evaluated("max", Len(tms)) }
               \cup (IF Len(tms) > 1 THEN { Evaluated("stdev", Len(tms) - 1) } ELSE { })
          ELSE { })

\* the divisions and statistics the summary evaluates, lines 256-268
SummaryEvals(tms, duration) ==
    IF tms # << >>
    THEN { Evaluated("mean", Len(tms)), Evaluated("median", Len(tms)),
           Evaluated("min", Len(tms)), Evaluated("max", Len(tms)) }
         \cup (IF Len(tms) > 1 THEN { Evaluated("stdev", Len(tms) - 1) } ELSE { })
         \cup (IF duration > 0 THEN { Evaluated("div_total_duration", duration) } ELSE { })
    ELSE { }

\* mutant: an item goes ahead of the items that have its count
InsertByCountDesc_AheadOfEquals(out, x) ==
    LET ahead == Cardinality({ k \in 1..Len(out) : out[k].count > x.count })
    IN  SubSeq(out, 1, ahead) \o << x >> \o SubSeq(out, ahead + 1, Len(out))

\* sorted(..., key=lambda item: item[1], reverse=True) is stable: an item
\* goes behind every item whose count is at least its own
InsertByCountDesc(out, x) ==
    LET ahead == Cardinality({ k \in 1..Len(out) : out[k].count >= x.count })
    IN  SubSeq(out, 1, ahead) \o << x >> \o SubSeq(out, ahead + 1, Len(out))

RECURSIVE SortedFrom(_, _)
SortedFrom(out, items) ==
    IF items = << >> THEN out
    ELSE SortedFrom(InsertByCountDesc(out, Head(items)), Tail(items))

\* sorted_errors, line 251, of error_counts.items() in insertion order
SortedErrors(ec) == SortedFrom(<< >>, ec)

RECURSIVE SeqSum(_)
SeqSum(xs) == IF xs = << >> THEN 0 ELSE Head(xs) + SeqSum(Tail(xs))

RECURSIVE SeqSumSq(_)
SeqSumSq(xs) == IF xs = << >> THEN 0 ELSE Head(xs) * Head(xs) + SeqSumSq(Tail(xs))

\* mutant: statistics.pstdev, the population standard deviation
StdevSquared_Population(tms) ==
    << Len(tms) * SeqSumSq(tms) - SeqSum(tms) * SeqSum(tms),
       Len(tms) * Len(tms) >>

\* statistics.stdev(timings), line 264: the square root of the sample
\* variance, sum((x - mean)^2) / (n - 1).  The variance is given as the
\* fraction << numerator, denominator >>.
StdevSquared(tms) ==
    << Len(tms) * SeqSumSq(tms) - SeqSum(tms) * SeqSum(tms),
       Len(tms) * (Len(tms) - 1) >>

\* final_qps, line 267, as the fraction << numerator, denominator >>
FinalQps(len, duration) == << len, duration >>

\* the values the summary prints, lines 247-268
SummaryReport(failed, ec, tms, duration, len) ==
    [error_breakdown |-> IF failed > 0 THEN SortedErrors(ec) ELSE << >>,
     overall_qps |-> IF tms # << >> /\ duration > 0
                     THEN FinalQps(len, duration) ELSE << >>,
     stdev |-> IF Len(tms) > 1 THEN StdevSquared(tms) ELSE << >>]

\* KeyboardInterrupt leaves asyncio.run: run_test's frame, with the counts
\* accumulated so far, is gone
FrameDropped ==
    /\ start_time' = [i \in Tasks |-> NoTime]
    /\ result' = [i \in Tasks |-> NoResult]
    /\ done_queue' = << >>
    /\ total_processed' = 0
    /\ successful_lookups' = 0
    /\ failed_lookups' = 0
    /\ error_counts' = << >>
    /\ timings' = << >>
    /\ consumed' = << >>
    /\ settled_as' = [i \in Tasks |-> None]
    /\ settled' = << >>

\* `except KeyboardInterrupt`, lines 307-309: what the handler prints
OnKeyboardInterrupt == { "interrupted" }

\* What the top level prints after run_test has returned: a coordinator
\* that was asked to cancel and ran to its end without suspending ends
\* cancelled all the same, and asyncio.run raises KeyboardInterrupt.
AfterRunTest(cancel_requested) ==
    IF cancel_requested THEN OnKeyboardInterrupt ELSE { }

\* The loop has yielded every future: lines 236-270, the end timestamp and
\* the summary; then asyncio.run returns or raises.
Summarize ==
    /\ mpc = "running"
    /\ LoopExhausted
    /\ total_duration' = now - start_processing_time
    /\ printed' = printed \cup SummaryLines(failed_lookups, timings,
                                            now - start_processing_time)
                           \cup AfterRunTest(sigint_at # NoTime)
    /\ evals' = evals \cup SummaryEvals(timings, now - start_processing_time)
    /\ report' = SummaryReport(failed_lookups, error_counts, timings,
                               now - start_processing_time, Len(domains))
    /\ IF sigint_at = NoTime
       THEN /\ mpc' = "done"
            /\ UNCHANGED << start_time, result, done_queue, total_processed,
                            successful_lookups, failed_lookups, error_counts,
                            timings, settled_as, consumed, settled >>
       ELSE /\ mpc' = "interrupted"
            /\ FrameDropped
    /\ UNCHANGED sigint_at
    /\ UNCHANGED << domains, dns_servers, N, sem_value, waiters, tpc,
                    start_processing_time, now, resolve_calls, acquires,
                    releases >>

\* KeyboardInterrupt while asyncio.run is running run_test: the coordinator
\* and every unfinished task are cancelled (a cancelled task gives its slot
\* back on the way out of `async with sem`), run_test prints nothing more
\* and its frame, with the counts accumulated so far, is dropped.
Interrupt ==
    /\ UNCHANGED report
    /\ sigint_at' = NoTime
    /\ mpc = "running"
    /\ mpc' = "interrupted"
    /\ printed' = printed \cup OnKeyboardInterrupt
    /\ tpc' = [i \in Tasks |-> IF tpc[i] = "done" THEN "done" ELSE "cancelled"]
    /\ releases' = [i \in Tasks |->
                      IF tpc[i] = "resolving" THEN releases[i] + 1 ELSE releases[i]]
    /\ sem_value' = sem_value + Cardinality(Holding)
    /\ waiters' = << >>
    /\ FrameDropped
    /\ UNCHANGED << domains, dns_servers, N, start_processing_time,
                    total_duration, now, evals, resolve_calls, acquires >>

\* time passes while run_test executes (only differences of perf_counter
\* readings are used, so the clock is started with the run)
Tick ==
    /\ mpc = "running"
    /\ now < MaxTime
    /\ now' = now + 1
    /\ UNCHANGED << mpc, domains, dns_servers, N, printed >>
    /\ UNCHANGED runVars

---------------------------------------------------------------------------

\* one step of the task of entry i / its resolve call settling
TaskStep(i) == TaskStart(i) \/ TaskResume(i)

Settle(i) == \E o \in Outcomes : TaskSettle(i, o)

Next ==
    \/ MainGetServers
    \/ MainShuffle
    \/ RunTestBegin
    \/ \E i \in 1..MaxDomains : TaskStep(i)
    \/ \E i \in 1..MaxDomains : Settle(i)
    \/ Consume
    \/ ConsumeInterrupted
    \/ Summarize
    \/ Interrupt
    \/ Tick

Spec == Init /\ [][Next]_vars

\* A run that no operator interrupts, in which the event loop keeps running
\* every task and the coordinator that can take a step, and every resolve
\* call settles.  No step of the program waits for a reading of the clock,
\* so the clock is left standing.
NextUninterrupted ==
    \/ MainGetServers
    \/ MainShuffle
    \/ RunTestBegin
    \/ \E i \in 1..MaxDomains : TaskStep(i)
    \/ \E i \in 1..MaxDomains : Settle(i)
    \/ Consume
    \/ Summarize

Fairness ==
    /\ \A i \in 1..MaxDomains : WF_vars(TaskStep(i)) /\ WF_vars(Settle(i))
    /\ WF_vars(Consume)
    /\ WF_vars(Summarize)

FairSpec == Init /\ [][NextUninterrupted]_vars /\ Fairness

---------------------------------------------------------------------------
(* The summary of longer runs.  The summary is a function of what the loop  *)
(* has accumulated, so it is applied to the state in which the loop has     *)
(* yielded every future of a run of up to MaxReported entries: the entries  *)
(* settled as outs[i] after lat[i] ticks and their records went through     *)
(* lines 219-224 in that order.                                             *)

NoTally == [successful |-> 0, failed |-> 0, error_counts |-> << >>, timings |-> << >>]

\* lines 219-224 applied to the records recs in order, starting from acc
RECURSIVE Tally(_, _)
Tally(acc, recs) ==
    IF recs = << >> THEN acc
    ELSE Tally(RecordResult(acc.successful, acc.failed, acc.error_counts,
                            acc.timings, Head(recs)),
               Tail(recs))

ReportInit ==
    \E now0 \in 0..MaxTime, len \in 0..MaxReported :
      \E outs \in [1..len -> Outcomes], lat \in [1..len -> 0..now0] :
        LET recs == [i \in 1..len |-> query_domain("google.com", outs[i], 0, lat[i])]
            t == Tally(NoTally, recs)
        IN  /\ mpc = "running"
            /\ domains = [i \in 1..len |-> "google.com"]
            /\ dns_servers = << DEFAULT_DNS_SERVER >>
            /\ N = 1
            /\ sem_value = 1
            /\ waiters = << >>
            /\ tpc = [i \in 1..len |-> "done"]
            /\ start_time = [i \in 1..len |-> NoTime]
            /\ result = [i \in 1..len |-> NoResult]
            /\ done_queue = << >>
            /\ total_processed = len
            /\ successful_lookups = t.successful
            /\ failed_lookups = t.failed
            /\ error_counts = t.error_counts
            /\ timings = t.timings
            /\ start_processing_time = 0
            /\ total_duration = NoTime
            /\ now = now0
            /\ printed = { "debug_servers", "header" }
                            \cup (IF len > 0 THEN { "progress" } ELSE { })
            /\ evals = IF len > 0 THEN ProgressEvals(now0, len) ELSE { }
            /\ resolve_calls = [i \in 1..len |-> 1]
            /\ acquires = [i \in 1..len |-> 1]
            /\ releases = [i \in 1..len |-> 1]
            /\ settled_as = outs
            /\ consumed = [i \in 1..len |->
                             [idx |-> i, domain |-> recs[i].domain,
                              error_key |-> recs[i].error_key,
                              time_taken |-> IF Truthy(recs[i].error_key)
                                             THEN NoTime ELSE recs[i].time_taken]]
            /\ report = NoReport
            /\ sigint_at = NoTime
            /\ settled = [i \in 1..len |-> i]

ReportNext ==
    \/ Summarize
    \/ Tick

ReportSpec == ReportInit /\ [][ReportNext]_vars

---------------------------------------------------------------------------
(* Properties *)

Min(a, b) == IF a < b THEN a ELSE b

\* the queries admitted by the semaphore that have not settled yet
InFlight == Cardinality(Holding)

\* the entries of domains whose resolve call settled with an error
FailedEntries == { i \in Tasks : settled_as[i] \in ExceptionClasses }

\* C1: at no time are more than min(N, D) queries admitted by the semaphore
\* and not yet settled; with N = 1 no two queries are in flight together.
C1_CeilingNeverExceeded ==
    /\ InFlight <= Min(N, Len(domains))
    /\ N = 1 => \A i, j \in Holding : i = j

\* C1 witness: ceiling 1 is reached, one query in flight and one held back
C1_Witness ==
    /\ N = 1
    /\ \E i, j \in Tasks : tpc[i] = "resolving" /\ tpc[j] = "waiting"

\* C2: after every completion event successful_lookups + failed_lookups
\* equals total_processed.
C2_CountsAddUp == successful_lookups + failed_lookups = total_processed

\* C2 witness: a success and a failure have both been consumed
C2_Witness ==
    /\ total_processed = 2
    /\ successful_lookups = 1
    /\ failed_lookups = 1

\* C3: in a completed run every entry of the domain list was resolved
\* exactly once and has exactly one consumed outcome record, its own.
C3_ExactlyOneOutcomePerEntry ==
    mpc = "done" =>
        /\ Len(consumed) = Len(domains)
        /\ \A i \in Tasks :
             /\ resolve_calls[i] = 1
             /\ Cardinality({ k \in 1..Len(consumed) : consumed[k].idx = i }) = 1
             /\ \A k \in 1..Len(consumed) :
                  consumed[k].idx = i => consumed[k].domain = domains[i]

\* C3 witness: a completed run over two different domains that were
\* consumed in the opposite of their list order
C3_Witness ==
    /\ mpc = "done"
    /\ Len(domains) = 2
    /\ domains[1] # domains[2]
    /\ consumed[1].idx = 2

\* C4: the counts of error_counts add up to failed_lookups and timings has
\* one entry per successful lookup.
C4_TallyMatchesCounters ==
    /\ SumCounts(error_counts) = failed_lookups
    /\ Len(timings) = successful_lookups

\* C4 witness: the same error kind counted twice
C4_Witness ==
    /\ failed_lookups = 2
    /\ Len(error_counts) = 1

\* C5: a slot is released exactly once per admitted task, whatever the
\* outcome: free slots + in-flight queries = N always, and all N slots are
\* free once the run has completed.
C5_NoSlotLeak ==
    /\ sem_value + InFlight = N
    /\ \A i \in Tasks :
         /\ releases[i] <= acquires[i]
         /\ acquires[i] <= 1
         /\ tpc[i] = "done" => releases[i] = 1 /\ acquires[i] = 1
         /\ tpc[i] = "resolving" => releases[i] = 0 /\ acquires[i] = 1
    /\ mpc = "done" => sem_value = N

\* C5 witness: a completed run in which a task had to wait for a slot and
\* both a successful and a failed query released theirs
C5_Witness ==
    /\ mpc = "done"
    /\ Len(domains) > N
    /\ successful_lookups > 0
    /\ failed_lookups > 0

\* C6: a query that fails never aborts the run and never raises out of
\* query_domain: its record has a non-empty error key, it is tallied, and
\* the coordinator carries on to the end of the list.
C6_FailuresRecoveredLocally ==
    /\ mpc # "error"
    /\ \A i \in FailedEntries :
         tpc[i] = "done" /\ result[i] # NoResult =>
             ~result[i].raised /\ Truthy(result[i].error_key)
    /\ \A k \in 1..Len(consumed) :
         consumed[k].idx \in FailedEntries =>
             Truthy(consumed[k].error_key)
    /\ mpc = "done" =>
         /\ failed_lookups = Cardinality(FailedEntries)
         /\ total_processed = Len(domains)

\* C6 witness: the first query consumed failed with an error that has no
\* except clause of its own, and the run went on and completed
C6_Witness ==
    /\ mpc = "done"
    /\ Len(domains) = 2
    /\ settled_as[consumed[1].idx] = "NoNameservers"
    /\ settled_as[consumed[2].idx] = "ok"

\* C7: if every resolve call settles and the tasks are scheduled fairly,
\* every task submitted to the limiter is eventually admitted and the run
\* eventually completes with total_processed = D and the summary printed.
C7_EventuallyAdmittedAndCompleted ==
    /\ \A i \in 1..MaxDomains :
         (i \in Tasks /\ tpc[i] \in { "scheduled", "waiting" })
             ~> (i \in Tasks /\ acquires[i] = 1)
    /\ (mpc = "running")
           ~> (mpc = "done" /\ total_processed = Len(domains)
                            /\ "summary" \in printed)

\* C7 witness: a task that had to wait on the limiter has been handed a slot
C7_Witness == \E i \in Tasks : tpc[i] = "woken"

\* C8: while run_test runs total_processed never decreases, grows by 1 with
\* each consumed completion and by nothing else, never exceeds len(domains),
\* and equals len(domains) only once every completion has been consumed,
\* which is when the summary is produced.
C8_ProcessedCountsUp ==
    [][ mpc' # "interrupted" =>
          /\ total_processed' \in { total_processed, total_processed + 1 }
          /\ total_processed' = total_processed + 1
                <=> Len(consumed') = Len(consumed) + 1
          /\ total_processed' <= Len(domains)
          /\ total_processed' = Len(domains) /\ mpc' \in { "running", "done" } =>
                /\ Len(consumed') = Len(domains)
                /\ \A i \in Tasks : tpc'[i] = "done"
          /\ mpc = "running" /\ mpc' = "done" =>
                total_processed = Len(domains) /\ UNCHANGED total_processed
      ]_vars

\* C8 witness: the last of two completions has just been consumed and the
\* summary is not produced yet
C8_Witness ==
    /\ mpc = "running"
    /\ Len(domains) = 2
    /\ total_processed = 2

\* C9: with an empty nameserver list the program stops with the
\* configuration error: run_test is not started, no query is issued and
\* neither the header nor a progress line is printed.
C9_NoServersFailsFast ==
    mpc # "prompt" /\ dns_servers = << >> =>
        /\ mpc = "exit"
        /\ "critical_no_servers" \in printed
        /\ printed \cap { "header", "progress", "summary" } = { }
        /\ start_processing_time = NoTime
        /\ \A i \in Tasks : tpc[i] = "none" /\ resolve_calls[i] = 0

\* C9 witness: the user typed only separators and the program has stopped
C9_Witness ==
    /\ mpc = "exit"
    /\ dns_servers = << >>

\* C10: with an empty domain list run_test goes straight to the summary with
\* zero counts, issues no query and evaluates no division and no statistic.
C10_EmptyDomainList ==
    domains = << >> =>
        /\ successful_lookups = 0
        /\ failed_lookups = 0
        /\ total_processed = 0
        /\ evals = { }
        /\ "progress" \notin printed
        /\ mpc \in { "call", "running", "done", "interrupted" }
        /\ mpc = "running" => ENABLED Summarize
        /\ mpc = "done" =>
             /\ { "summary", "no_successful_lookups" } \subseteq printed
             /\ printed \cap { "performance", "overall_qps", "stdev",
                               "error_breakdown" } = { }

\* C10 witness: the run over the empty list has completed in no time
C10_Witness ==
    /\ mpc = "done"
    /\ domains = << >>
    /\ total_duration = 0

\* the statistics of the performance section, lines 257-264
StatisticOps == { "mean", "median", "min", "max", "stdev" }

\* C11: a run that ends with no successful latency prints the "No successful
\* lookups" line in place of the performance section, evaluates no statistic
\* over the empty list and reports no value for the deviation or the rate.
C11_NoSuccessNoStatistics ==
    (mpc = "done" /\ timings = << >>) =>
        /\ { "summary", "no_successful_lookups" } \subseteq printed
        /\ printed \cap { "performance", "stdev", "overall_qps" } = { }
        /\ \A ev \in evals : ev.op \notin StatisticOps
        /\ report.stdev = << >>
        /\ report.overall_qps = << >>

\* C11 witness: every lookup of a two-entry run failed and the summary is out
C11_Witness ==
    /\ mpc = "done"
    /\ timings = << >>
    /\ failed_lookups = 2
    /\ "error_breakdown" \in printed

\* C12 (as claimed): a run whose total duration is 0 ends with the summary
\* reporting the overall throughput as undefined, and the duration is never
\* divided by.  The summary of the code has no such line: lines 266-268 print
\* the rate when the duration is positive and nothing otherwise.
C12_ZeroDurationReportedUndefined ==
    (mpc = "done" /\ total_duration = 0) =>
        /\ "overall_qps_undefined" \in printed
        /\ \A ev \in evals : ev.op # "div_total_duration"

\* C13 (as claimed): every run that completes with a positive total duration
\* reports the overall throughput, total domains / total duration, whatever
\* the number of successful lookups.  In the code the rate is printed inside
\* the `if timings:` branch, so a run without a success reports none.
C13_ThroughputAlwaysReported ==
    (mpc = "done" /\ total_duration > 0) =>
        /\ "overall_qps" \in printed
        /\ report.overall_qps = << Len(domains), total_duration >>

\* C14 (as claimed): once an operator interrupt has arrived while run_test
\* is executing and the last completion is not yet consumed, no test summary
\* is ever printed for the run, and the program ends with no query left in
\* flight or waiting.  On Python 3.11 and later a SIGINT that arrives while
\* the coordinator is running is only delivered at its next suspension: if
\* every remaining task has finished already, the loop runs to its end and
\* the whole summary is printed before "Test interrupted by user".
C14_InterruptedRunPrintsNoSummary ==
    /\ (mpc = "interrupted" /\ sigint_at = NoTime) => "summary" \notin printed
    /\ (sigint_at # NoTime /\ sigint_at < Len(domains)) => "summary" \notin printed
    /\ mpc = "interrupted" => \A i \in Tasks : tpc[i] \in { "done", "cancelled" }

\* C15: when the resolve call of an entry settles, the elapsed time that
\* query_domain returns is exactly TIMEOUT if the call timed out, whatever
\* the clock says, and the measured end - start time for every other
\* outcome, success or failure.
C15_TimeoutReportsConfiguredValue ==
    [][ \A i \in Tasks :
          (tpc[i] = "resolving" /\ tpc'[i] = "done") =>
             /\ ~result'[i].raised
             /\ result'[i].time_taken =
                  IF settled_as'[i] = "Timeout" THEN TIMEOUT
                  ELSE now - start_time[i] ]_vars

\* C15 witness: a lookup that timed out at once stands with TIMEOUT as its
\* elapsed time next to a failed one that took one tick
C15_Witness ==
    \E i, j \in Tasks :
        /\ result[i] # NoResult /\ result[j] # NoResult
        /\ settled_as[i] = "Timeout"
        /\ result[i].time_taken = TIMEOUT
        /\ now < TIMEOUT
        /\ settled_as[j] = "NoAnswer"
        /\ result[j].time_taken = 1

\* the error kinds the coordinator consumed, and where it met each first
ObservedKinds == { consumed[k].error_key : k \in { n \in 1..Len(consumed) : Truthy(consumed[n].error_key) } }

TimesObserved(kind) == Cardinality({ k \in 1..Len(consumed) : consumed[k].error_key = kind })

FirstObserved(kind) ==
    CHOOSE k \in 1..Len(consumed) :
        /\ consumed[k].error_key = kind
        /\ \A n \in 1..(k - 1) : consumed[n].error_key # kind

\* C16: the error breakdown of the summary has one line for each error kind
\* observed, with the number of times it was observed; the lines come by
\* descending count, and kinds with equal counts in the order in which they
\* were first observed.
C16_ErrorBreakdownOrder ==
    (mpc = "done" /\ failed_lookups > 0) =>
        LET bd == report.error_breakdown IN
        /\ "error_breakdown" \in printed
        /\ Len(bd) = Cardinality(ObservedKinds)
        /\ \A kind \in ObservedKinds :
              \E a \in 1..Len(bd) :
                 bd[a].key = kind /\ bd[a].count = TimesObserved(kind)
        /\ \A a, b \in 1..Len(bd) :
              a < b =>
                 /\ bd[a].count >= bd[b].count
                 /\ bd[a].count = bd[b].count =>
                       FirstObserved(bd[a].key) < FirstObserved(bd[b].key)

\* C16 witness: the kind observed last has the highest count and is listed
\* first; the two kinds observed before it tie and keep their order
C16_Witness ==
    /\ mpc = "done"
    /\ Len(report.error_breakdown) = 3
    /\ report.error_breakdown[1].count = 2
    /\ FirstObserved(report.error_breakdown[1].key) = 3
    /\ FirstObserved(report.error_breakdown[2].key) = 1
    /\ FirstObserved(report.error_breakdown[3].key) = 2

\* C17: the coordinator applies the outcomes in the order in which the
\* queries settled, whatever their places in the domain list, and while a
\* settled query is unconsumed the coordinator has a result to go on with:
\* it is not held up by a query that has not settled.
C17_ConsumedInCompletionOrder ==
    /\ Len(consumed) <= Len(settled)
    /\ \A k \in 1..Len(consumed) : consumed[k].idx = settled[k]
    /\ (mpc = "running" /\ Len(consumed) < Len(settled)) => ENABLED Consume

\* C17 witness: the second entry of the list settled first and has been
\* consumed; the first entry settled after it and is waiting its turn
C17_Witness ==
    /\ mpc = "running"
    /\ settled = << 2, 1 >>
    /\ Len(consumed) = 1
    /\ consumed[1].idx = 2

\* n * n times the sum of the squared deviations of xs from their mean:
\* the sum over i of (n * xs[i] - sum(xs))^2
RECURSIVE ScaledSquaredDeviations(_, _, _)
ScaledSquaredDeviations(xs, n, sum) ==
    IF xs = << >> THEN 0
    ELSE (n * Head(xs) - sum) * (n * Head(xs) - sum)
         + ScaledSquaredDeviations(Tail(xs), n, sum)

\* the fraction v = << numerator, denominator >> is the sum of the squared
\* deviations of tms from their mean, divided by divisor
IsSquaredDeviationsOver(v, tms, divisor) ==
    v[1] * divisor * Len(tms) * Len(tms)
        = v[2] * ScaledSquaredDeviations(tms, Len(tms), SeqSum(tms))

\* C18 (as claimed): the summary has a standard deviation exactly when there
\* are at least 2 successful latencies, and it is their population standard
\* deviation: its square is the mean of the squared deviations (divisor n).
C18_StdevIsPopulation ==
    mpc = "done" =>
        /\ "stdev" \in printed <=> Len(timings) >= 2
        /\ Len(timings) < 2 => report.stdev = << >>
        /\ Len(timings) >= 2 =>
              IsSquaredDeviationsOver(report.stdev, timings, Len(timings))

\* C18 (amended): the summary has a standard deviation exactly when there
\* are at least 2 successful latencies, and it is their sample standard
\* deviation: its square is the sum of the squared deviations divided by
\* n - 1.
C18_StdevIsSample ==
    mpc = "done" =>
        /\ "stdev" \in printed <=> Len(timings) >= 2
        /\ Len(timings) < 2 => report.stdev = << >>
        /\ Len(timings) >= 2 =>
              IsSquaredDeviationsOver(report.stdev, timings, Len(timings) - 1)

\* C18 witness: a deviation was reported for three successful latencies
\* that are not all the same
C18_Witness ==
    /\ mpc = "done"
    /\ Len(timings) = 3
    /\ "stdev" \in printed
    /\ report.stdev # << >>
    /\ \E a, b \in 1..Len(timings) : timings[a] # timings[b]

\* C19: the start timestamp is on record before any query is admitted by
\* the semaphore or issued to the resolver, and the end timestamp is taken
\* only when every completion has been consumed; so each query starts and
\* settles between the two, and no measured latency exceeds the duration.
C19_WindowsInsideInterval ==
    [][ /\ \A i \in Tasks :
             (acquires'[i] > acquires[i] \/ resolve_calls'[i] > resolve_calls[i]) =>
                /\ start_processing_time # NoTime
                /\ start_processing_time <= now
                /\ start_processing_time' = start_processing_time
        /\ \A i \in Tasks :
             (tpc[i] = "resolving" /\ tpc'[i] = "done") =>
                /\ start_processing_time <= start_time[i]
                /\ start_time[i] <= now
        /\ total_duration' # total_duration =>
             /\ total_processed = Len(domains)
             /\ done_queue = << >>
             /\ \A i \in Tasks : tpc[i] = "done"
             /\ total_duration' = now - start_processing_time
             /\ \A k \in 1..Len(timings) : timings[k] <= total_duration'
      ]_vars

\* C19 witness: a run of two lookups is over; one of them was in flight
\* from the start timestamp to the end timestamp
C19_Witness ==
    /\ mpc = "done"
    /\ total_duration = 1
    /\ Len(timings) = 2
    /\ \E k \in 1..Len(timings) : timings[k] = total_duration

\* the records the coordinator consumed that carry no error key
IsSuccess(c) == c.error_key = None

\* C20: timings holds exactly the latencies of the lookups that succeeded,
\* in the order in which they were consumed; consuming a failed lookup, a
\* Timeout with its TIMEOUT value included, leaves timings as it is, and
\* while run_test runs timings only grows at its end.
C20_TimingsOnlySuccesses ==
    [][ mpc' # "interrupted" =>
          /\ Len(timings') = Len(SelectSeq(consumed', IsSuccess))
          /\ \A k \in 1..Len(timings') :
                timings'[k] = SelectSeq(consumed', IsSuccess)[k].time_taken
          /\ Len(timings') >= Len(timings)
          /\ SubSeq(timings', 1, Len(timings)) = timings
          /\ (Len(consumed') > Len(consumed)
                /\ ~IsSuccess(consumed'[Len(consumed')])) => timings' = timings
      ]_vars

\* C20 witness: a Timeout and then a success that took one tick have been
\* consumed, and only the success is in timings
C20_Witness ==
    /\ Len(consumed) = 2
    /\ consumed[1].error_key = "Timeout"
    /\ consumed[2].error_key = None
    /\ timings = << 1 >>

====
